---- MODULE Spec2Model ----
(***************************************************************************)
(* hex_math: cube-coordinate points with a height axis, the distance       *)
(* metric, the line iterator with its range and wall adaptors, and the     *)
(* range / ring region builders.                                           *)
(*                                                                         *)
(* Points are records [q, r, t] of integers.  The tracer's scratch values  *)
(* are IEEE-754 binary32 numbers, modelled bit-exactly as                  *)
(* sign * man * 2^exp with a 24-bit significand and round-to-nearest-even. *)
(***************************************************************************)
EXTENDS Integers, Sequences, FiniteSets, TLC

(***************************************************************************)
(* Bounds of the explored input space.                                     *)
(***************************************************************************)
MaxD == 2        \* planar offsets of the end point from the start: -MaxD..MaxD
MaxH == 2        \* height offsets of the end point from the start: -MaxH..MaxH
MaxRange == 4    \* explicit ranges of line_through / ray_through: -1..MaxRange
MaxPulls == 6    \* items followed per collect when the Range adaptor never closes
MaxRadius == 3   \* radii of range / ring / flood: -1..MaxRadius
MaxTimes == 13   \* rotation counts: -MaxTimes..MaxTimes

(***************************************************************************)
(* Integer helpers (i32 methods).                                          *)
(***************************************************************************)
abs(x) == IF x < 0 THEN -x ELSE x

signum(x) == IF x > 0 THEN 1 ELSE IF x < 0 THEN -1 ELSE 0

max(x, y) == IF x >= y THEN x ELSE y

min(x, y) == IF x <= y THEN x ELSE y

(***************************************************************************)
(* binary32 arithmetic.  A finite value is sign * man * 2^exp with         *)
(* man = 0 or 2^23 <= man < 2^24; the sign of a zero is not tracked (no    *)
(* operation of the tracer distinguishes -0.0 from 0.0).                   *)
(***************************************************************************)
RECURSIVE BitLen(_)
BitLen(x) == IF x = 0 THEN 0 ELSE 1 + BitLen(x \div 2)

F32Zero == [kind |-> "num", sign |-> 1, man |-> 0, exp |-> 0]

F32NaN == [kind |-> "nan", sign |-> 1, man |-> 0, exp |-> 0]

F32Inf(sg) == [kind |-> "inf", sign |-> sg, man |-> 0, exp |-> 0]

\* The binary32 nearest to sg * mag * 2^ex, ties to even (mag < 2^31).
F32Pack(sg, mag, ex) ==
  IF mag = 0 THEN F32Zero
  ELSE LET bl == BitLen(mag) IN
    IF bl <= 24
    THEN [kind |-> "num", sign |-> sg, man |-> mag * 2^(24 - bl),
          exp |-> ex - (24 - bl)]
    ELSE LET sh   == bl - 24
             quo  == mag \div 2^sh
             rem  == mag % 2^sh
             half == 2^(sh - 1)
             up   == rem > half \/ (rem = half /\ quo % 2 = 1)
             res  == IF up THEN quo + 1 ELSE quo
         IN IF res = 2^24
            THEN [kind |-> "num", sign |-> sg, man |-> 2^23, exp |-> ex + sh + 1]
            ELSE [kind |-> "num", sign |-> sg, man |-> res, exp |-> ex + sh]

\* `x as f32` for an i32 of small magnitude (exact).
F32FromInt(x) == F32Pack(signum(x) + (IF x = 0 THEN 1 ELSE 0), abs(x), 0)

\* The f32 literal 1e-6 = 8796093 * 2^-43.
TinyOffset == [kind |-> "num", sign |-> 1, man |-> 8796093, exp |-> -43]

F32Neg(x) ==
  IF x.kind = "nan" \/ (x.kind = "num" /\ x.man = 0) THEN x
  ELSE [x EXCEPT !.sign = -x.sign]

F32Abs(x) == IF x.kind = "nan" THEN x ELSE [x EXCEPT !.sign = 1]

\* x + y with three extra bits (guard, round, sticky) below the larger
\* operand's significand.
F32Add(x, y) ==
  IF x.kind = "nan" \/ y.kind = "nan" THEN F32NaN
  ELSE IF x.kind = "inf" /\ y.kind = "inf"
       THEN IF x.sign = y.sign THEN x ELSE F32NaN
  ELSE IF x.kind = "inf" THEN x
  ELSE IF y.kind = "inf" THEN y
  ELSE IF x.man = 0 THEN y
  ELSE IF y.man = 0 THEN x
  ELSE LET hi   == IF x.exp >= y.exp THEN x ELSE y
           lo   == IF x.exp >= y.exp THEN y ELSE x
           dd   == hi.exp - lo.exp
           big  == hi.man * 8
           low  == lo.man * 8
           quo  == IF dd > 27 THEN 0 ELSE low \div 2^dd
           lost == IF dd > 27 THEN TRUE ELSE low % 2^dd # 0
           sml  == IF lost /\ quo % 2 = 0 THEN quo + 1 ELSE quo
           sum  == hi.sign * big + lo.sign * sml
       IN F32Pack(IF sum < 0 THEN -1 ELSE 1, abs(sum), hi.exp - 3)

F32Sub(x, y) == F32Add(x, F32Neg(y))

\* `(k as f32) * x` for an i32 k of small magnitude.
F32MulInt(k, x) ==
  IF x.kind = "nan" THEN F32NaN
  ELSE IF x.kind = "inf"
       THEN IF k = 0 THEN F32NaN ELSE F32Inf(signum(k) * x.sign)
  ELSE F32Pack(IF k < 0 THEN -x.sign ELSE x.sign, abs(k) * x.man, x.exp)

\* `(d as f32).recip()` for an i32 d with 0 <= d < 32; 1/0 is +infinity.
F32Recip(d) ==
  IF d = 0 THEN F32Inf(1)
  ELSE LET p   == BitLen(d) + 25
           quo == (2^p) \div d
           rem == (2^p) % d
       IN F32Pack(1, 2 * quo + (IF rem # 0 THEN 1 ELSE 0), -(p + 1))

\* x < y on finite values; every comparison with a NaN is false.
F32Lt(x, y) ==
  IF x.kind # "num" \/ y.kind # "num" THEN FALSE
  ELSE LET magLt(a, b) == IF a.man = 0 THEN b.man # 0
                          ELSE IF b.man = 0 THEN FALSE
                          ELSE a.exp < b.exp \/ (a.exp = b.exp /\ a.man < b.man)
           neg(a) == a.man # 0 /\ a.sign = -1
       IN IF neg(x) /\ ~neg(y) THEN TRUE
          ELSE IF ~neg(x) /\ neg(y) THEN FALSE
          ELSE IF neg(x) THEN magLt(y, x) ELSE magLt(x, y)

\* f32::round (half away from zero) followed by `as i32`, for |x| < 2^24.
F32RoundInt(x) ==
  IF x.kind # "num" \/ x.man = 0 THEN 0
  ELSE IF x.exp >= 0 THEN x.sign * x.man * 2^(x.exp)
  ELSE LET kk == -x.exp IN
    IF kk > 24 THEN 0
    ELSE LET ip == x.man \div 2^kk
             fr == x.man % 2^kk
         IN x.sign * (IF fr >= 2^(kk - 1) THEN ip + 1 ELSE ip)

(***************************************************************************)
(* Points.                                                                 *)
(***************************************************************************)
Point(pq, pr, pt) == [q |-> pq, r |-> pr, t |-> pt]

\* Point::s on integer points: s = -q - r.
s(p) == (-p.q) - p.r

\* Point::s on float points.
F32S(p) == F32Sub(F32Neg(p.q), p.r)

\* &Point + &Point
PointAdd(p, o) == Point(p.q + o.q, p.r + o.r, p.t + o.t)

\* &Point - &Point
PointSub(p, o) == Point(p.q - o.q, p.r - o.r, p.t - o.t)

\* &Point<f32> + &Point<f32>
F32PointAdd(p, o) == Point(F32Add(p.q, o.q), F32Add(p.r, o.r), F32Add(p.t, o.t))

\* From<Point> for Point<f32>
F32PointFrom(p) == Point(F32FromInt(p.q), F32FromInt(p.r), F32FromInt(p.t))

\* Mutant: the rounded s is returned in the place of r.
F32PointRound_KeepS(p) ==
  LET fs == F32S(p)
  IN Point(F32RoundInt(p.q), F32RoundInt(fs), F32RoundInt(p.t))

\* Point<f32>::round
F32PointRound(p) ==
  LET fs == F32S(p)
      rq == F32RoundInt(p.q)
      rr == F32RoundInt(p.r)
      rs == F32RoundInt(fs)
      rt == F32RoundInt(p.t)
      dq == F32Abs(F32Sub(F32FromInt(rq), p.q))
      dr == F32Abs(F32Sub(F32FromInt(rr), p.r))
      ds == F32Abs(F32Sub(F32FromInt(rs), fs))
  IN IF F32Lt(ds, dq) /\ F32Lt(dr, dq) THEN Point((-rs) - rr, rr, rt)
     ELSE IF F32Lt(ds, dr) THEN Point(rq, (-rq) - rs, rt)
     ELSE Point(rq, rr, rt)

(***************************************************************************)
(* Distance.                                                               *)
(***************************************************************************)
\* Base::base_distance
base_distance(p, o) ==
  LET diff == PointSub(p, o)
  IN (abs(diff.q) + abs(diff.r) + abs(s(diff))) \div 2

\* Height::height
height(p, o) == abs(p.t - o.t)

\* Mutant: the height difference is left out of the distance.
distance_NoHeight(p, o) == base_distance(p, o)

\* Distance::distance
distance(p, o) == base_distance(p, o) + height(p, o)

(***************************************************************************)
(* Directions, travel, walls.                                              *)
(***************************************************************************)
\* Direction::to_vec
to_vec == <<"East", "Southeast", "Southwest", "West", "Northwest",
            "Northeast", "Up", "Down">>

\* Direction::opposite
opposite(dir) ==
  CASE dir = "East"      -> "West"
    [] dir = "Southeast" -> "Northwest"
    [] dir = "Southwest" -> "Northeast"
    [] dir = "West"      -> "East"
    [] dir = "Northwest" -> "Southeast"
    [] dir = "Northeast" -> "Southwest"
    [] dir = "Up"        -> "Down"
    [] dir = "Down"      -> "Up"

\* Travel::travel
travel(p, dir, units) ==
  CASE dir = "East"      -> Point(p.q + units, p.r, p.t)
    [] dir = "Southeast" -> Point(p.q, p.r + units, p.t)
    [] dir = "Southwest" -> Point(p.q - units, p.r + units, p.t)
    [] dir = "West"      -> Point(p.q - units, p.r, p.t)
    [] dir = "Northwest" -> Point(p.q, p.r - units, p.t)
    [] dir = "Northeast" -> Point(p.q + units, p.r - units, p.t)
    [] dir = "Up"        -> Point(p.q, p.r, p.t + units)
    [] dir = "Down"      -> Point(p.q, p.r, p.t - units)

\* Direction::from((p0, p1)); "Panic" is the panic!() arm.
DirectionFrom(p0, p1) ==
  LET diff == PointSub(p1, p0)
      sq == signum(diff.q)
      sr == signum(diff.r)
  IN IF signum(diff.t) = 1 THEN "Up"
     ELSE IF signum(diff.t) = -1 THEN "Down"
     ELSE IF sq = 1 /\ sr = 0 THEN "East"
     ELSE IF sq = 0 /\ sr = 1 THEN "Southeast"
     ELSE IF sq = -1 /\ sr = 1 THEN "Southwest"
     ELSE IF sq = -1 /\ sr = 0 THEN "West"
     ELSE IF sq = 0 /\ sr = -1 THEN "Northwest"
     ELSE IF sq = 1 /\ sr = -1 THEN "Northeast"
     ELSE "Panic"

\* A prism's walls: strengths of (East, Southeast, Southwest, Down).
Prism(e, se, sw, d) == [east |-> e, southeast |-> se, southwest |-> sw, down |-> d]

\* HasWalls::has_wall of one prism
PrismHasWall(prism, dir) ==
  CASE dir = "East"      -> prism.east > 0
    [] dir = "Southeast" -> prism.southeast > 0
    [] dir = "Southwest" -> prism.southwest > 0
    [] dir = "Down"      -> prism.down > 0
    [] OTHER             -> FALSE

\* IsPointMap::has_wall; a map is a function from points to prisms.
has_wall(map, p0, dir) ==
  IF p0 \in DOMAIN map THEN PrismHasWall(map[p0], dir) ELSE FALSE

\* Mutant: only the wall declared by the first point is looked up.
has_wall_between_NearSideOnly(map, p0, p1) ==
  IF p0 = p1 THEN FALSE
  ELSE has_wall(map, p0, DirectionFrom(p0, p1))

\* IsPointMap::has_wall_between, defined where Direction::from returns.
has_wall_between(map, p0, p1) ==
  IF p0 = p1 THEN FALSE
  ELSE LET dir == DirectionFrom(p0, p1)
       IN has_wall(map, p0, dir) \/ has_wall(map, p1, opposite(dir))

\* The call of has_wall_between(p0, p1) reaches Direction::from's panic arm.
WallQueryPanics(p0, p1) == p0 # p1 /\ DirectionFrom(p0, p1) = "Panic"

(***************************************************************************)
(* The line iterator.                                                      *)
(***************************************************************************)
\* Mutant: the divisor is the combined planar + height distance.
StepDivisor_Combined(start, end) == distance(start, end)

\* Iterator::step_size, `let distance = if (q0, r0) == (q1, r1) {..} else {..}`
StepDivisor(start, end) ==
  IF start.q = end.q /\ start.r = end.r
  THEN height(start, end)
  ELSE base_distance(start, end)

\* Iterator::step_size
step_size(start, end) ==
  LET dist == StepDivisor(start, end)
      step == F32Recip(dist)
      lerp(x, y) == F32Add(TinyOffset, F32MulInt(y - x, step))
  IN Point(lerp(start.q, end.q), lerp(start.r, end.r), lerp(start.t, end.t))

\* Iterator::new
IteratorNew(start, end) ==
  [start |-> start, current |-> start, round_target |-> start,
   target |-> F32PointFrom(start), step_size |-> step_size(start, end),
   going_nowhere |-> start = end, returned_start |-> FALSE]

\* The vertical unit the iterator adds to `current` when the rounded target
\* is at another height: height() is an absolute value, signum() its sign.
VerticalUnit(round_target, current) == signum(height(round_target, current))

\* Mutant: the iterator jumps straight to the rounded target without
\* decomposing the height difference into unit steps.
IteratorAdvance_Jump(it) ==
  LET moved == IF it.round_target = it.current
               THEN LET tgt == F32PointAdd(it.target, it.step_size)
                    IN [it EXCEPT !.target = tgt, !.round_target = F32PointRound(tgt)]
               ELSE it
  IN [moved EXCEPT !.current = moved.round_target]

\* Iterator::next, the part after the two early returns: the successor
\* iterator; the item returned is its `current`.
IteratorAdvance(it) ==
  LET moved == IF it.round_target = it.current
               THEN LET tgt == F32PointAdd(it.target, it.step_size)
                    IN [it EXCEPT !.target = tgt, !.round_target = F32PointRound(tgt)]
               ELSE it
      cur == IF height(moved.round_target, moved.current) = 0
             THEN moved.round_target
             ELSE PointAdd(moved.current,
                           Point(0, 0, VerticalUnit(moved.round_target, moved.current)))
  IN [moved EXCEPT !.current = cur]

\* The first k items of an iterator (Iterator::next called k times, ending
\* early at None).
RECURSIVE IteratorTake(_, _)
IteratorTake(iter, k) ==
  IF k <= 0 THEN <<>>
  ELSE IF ~iter.returned_start
       THEN <<iter.start>> \o IteratorTake([iter EXCEPT !.returned_start = TRUE], k - 1)
  ELSE IF iter.going_nowhere THEN <<>>
  ELSE LET nxt == IteratorAdvance(iter)
       IN <<nxt.current>> \o IteratorTake(nxt, k - 1)

\* Mutant: the scan already stops at index = range.
RangeStops_OffByOne(range, index) == IF range >= 0 THEN index >= range ELSE FALSE

\* Range::apply: TRUE when the scan stops.  `range as usize` of a negative
\* i32 is 2^64 + range, above every index the model follows.
RangeStops(range, index) == IF range >= 0 THEN index > range ELSE FALSE

\* Mutant: only the wall declared by the cell being left is looked up.
WallsStops_NearSideOnly(map, lst, next) ==
  lst # next /\ has_wall(map, lst, DirectionFrom(lst, next))

\* Walls::apply: TRUE when the scan stops, i.e. a wall lies between the
\* point seen last and the next one.
WallsStops(map, lst, next) == has_wall_between(map, lst, next)

(***************************************************************************)
(* State: one call of line / line_through / ray / ray_through, collected   *)
(* item by item, or one call of a region builder.                          *)
(***************************************************************************)
VARIABLES
  op,        \* the function called
  point,     \* its first argument
  other,     \* its second point argument (tracer only)
  range,     \* its i32 range / radius argument
  walls,     \* its wall map (ray, ray_through)
  it,        \* the line Iterator
  last,      \* Walls.1, the point the wall adaptor saw last
  index,     \* the Enumerate adaptor's counter
  set,       \* the HashSet being collected / returned
  emitted,   \* the items in the order collect() received them
  visited,   \* flood: the HashSet `visited`
  fringes,   \* flood: the elements of the Vec `fringes`
  queried,   \* the pairs has_wall_between has been called on
  result,    \* the value returned by rotate, round or has_wall_between
  pc         \* "collect", "call" or "flood" while the call runs; "done",
             \* "panic" or "cut" after

vars == <<op, point, other, range, walls, it, last, index, set, emitted,
          visited, fringes, queried, result, pc>>

\* The variables a call leaves at their initial values when it has no use
\* for them.
NoFlood == visited = {} /\ fringes = {}

NoResult == result = "none"

TracerOps == {"line", "line_through", "ray", "ray_through"}

UsesWalls(o) == o \in {"ray", "ray_through"}

UsesRange(o) == o \in {"line_through", "ray_through"}

\* The value handed to Range(..): the distance for line and ray, the
\* explicit range otherwise.
RangeArg == IF UsesRange(op) THEN range ELSE distance(point, other)

EmptyMap == [c \in {} |-> Prism(0, 0, 0, 0)]

Starts == {Point(0, 0, 0)}

Offsets == {Point(dq, dr, dt) : dq \in -MaxD..MaxD, dr \in -MaxD..MaxD,
                               dt \in -MaxH..MaxH}

\* The pairs of the documented examples and tests, and the first one reversed.
ExamplePairs == {<<Point(1, 2, 5), Point(3, 4, 10)>>,
                 <<Point(3, 4, 10), Point(1, 2, 5)>>,
                 <<Point(1, 2, 5), Point(2, 2, 6)>>,
                 <<Point(1, 2, 5), Point(1, 2, 7)>>,
                 <<Point(1, 2, 5), Point(1, 12, 5)>>}

Pairs == {<<a, PointAdd(a, o)>> : a \in Starts, o \in Offsets} \cup ExamplePairs

WallKinds == {Prism(1, 0, 0, 0), Prism(0, 1, 0, 0), Prism(0, 0, 1, 0),
              Prism(0, 0, 0, 1), Prism(0, 0, 0, 0)}

\* A wall map holds one prism: at the start, beside it or above it.
WallCells(a) == {a, travel(a, "East", 1), travel(a, "West", 1), travel(a, "Up", 1)}

\* The wall maps of the ray tests: a floor under (3, 3, 10), under (2, 2, 7).
ExampleMaps == {[c \in {Point(3, 3, 10)} |-> Prism(0, 0, 0, 1)],
                [c \in {Point(2, 2, 7)} |-> Prism(0, 0, 0, 1)]}

WallMaps(a) == {EmptyMap} \cup ExampleMaps
               \cup {[c \in {cell} |-> kind] : cell \in WallCells(a), kind \in WallKinds}

Init ==
  /\ op \in TracerOps
  /\ \E pair \in Pairs : point = pair[1] /\ other = pair[2]
  /\ range \in (IF UsesRange(op) THEN -1..MaxRange ELSE {0})
  /\ walls \in (IF UsesWalls(op) THEN WallMaps(point) ELSE {EmptyMap})
  /\ it = IteratorNew(point, other)
  /\ last = point
  /\ index = 0
  /\ set = {}
  /\ emitted = <<>>
  /\ NoFlood
  /\ queried = {}
  /\ NoResult
  /\ pc = "collect"

\* An item leaves the iterator and passes the adaptors in the order the
\* pipeline applies them: Walls (ray only), Enumerate, Range, collect.
Deliver(item) ==
  /\ queried' = (IF UsesWalls(op) THEN queried \cup {<<last, item>>} ELSE queried)
  /\ UNCHANGED <<visited, fringes, result>>
  /\ IF UsesWalls(op) /\ WallQueryPanics(last, item)
     THEN /\ pc' = "panic"
          /\ UNCHANGED <<last, index, set, emitted>>
     ELSE IF UsesWalls(op) /\ WallsStops(walls, last, item)
     THEN /\ pc' = "done"
          /\ UNCHANGED <<last, index, set, emitted>>
     ELSE /\ last' = (IF UsesWalls(op) THEN item ELSE last)
          /\ index' = index + 1
          /\ IF RangeStops(RangeArg, index)
             THEN pc' = "done" /\ UNCHANGED <<set, emitted>>
             ELSE /\ set' = set \cup {item}
                  /\ emitted' = Append(emitted, item)
                  /\ pc' = (IF RangeArg < 0 /\ index + 1 >= MaxPulls
                           THEN "cut" ELSE "collect")

\* next(): the first call returns the start.
PullStart ==
  /\ pc = "collect"
  /\ ~it.returned_start
  /\ it' = [it EXCEPT !.returned_start = TRUE]
  /\ Deliver(it.start)
  /\ UNCHANGED <<op, point, other, range, walls>>

\* next(): start == end, the iterator is exhausted after the start.
PullNowhere ==
  /\ pc = "collect"
  /\ it.returned_start
  /\ it.going_nowhere
  /\ pc' = "done"
  /\ UNCHANGED <<op, point, other, range, walls, it, last, index, set, emitted,
                 visited, fringes, queried, result>>

\* next(): one step along the line.
PullStep ==
  /\ pc = "collect"
  /\ it.returned_start
  /\ ~it.going_nowhere
  /\ it' = IteratorAdvance(it)
  /\ Deliver(it'.current)
  /\ UNCHANGED <<op, point, other, range, walls>>

Next == PullStart \/ PullNowhere \/ PullStep

Spec == Init /\ [][Next]_vars

(***************************************************************************)
(* Region builders.                                                        *)
(***************************************************************************)
\* Mutant: the inner loop runs over the whole of -range..range (a rhombus).
base_range_Rhombus(p, rng) ==
  UNION {{PointAdd(p, Point(dq, (-dq) - ds, 0)) : ds \in (-rng)..rng} :
         dq \in (-rng)..rng}

\* range::base
base_range(p, rng) ==
  UNION {{PointAdd(p, Point(dq, (-dq) - ds, 0)) :
            ds \in max(-rng, (-dq) - rng)..min(rng, (-dq) + rng)} :
         dq \in (-rng)..rng}

\* Mutant: the slices above and below keep the full radius (a cylinder).
range_of_Cylinder(p, rng) ==
  base_range(p, rng)
  \cup UNION {base_range(travel(p, "Up", i), rng)
              \cup base_range(travel(p, "Down", i), rng) : i \in 1..rng}

\* range::of
range_of(p, rng) ==
  base_range(p, rng)
  \cup UNION {base_range(travel(p, "Up", i), rng - i)
              \cup base_range(travel(p, "Down", i), rng - i) : i \in 1..rng}

\* ring::base, inner loop `for _ in 0..range`: the cells recorded along one
\* side and the position after it.
RECURSIVE RingSide(_, _, _)
RingSide(position, dir, n) ==
  IF n <= 0 THEN [cells |-> {}, position |-> position]
  ELSE LET rest == RingSide(travel(position, dir, 1), dir, n - 1)
       IN [cells |-> {position} \cup rest.cells, position |-> rest.position]

\* ring::base, outer loop over Direction::to_vec().iter().take(6).
RECURSIVE RingSides(_, _, _)
RingSides(position, d, n) ==
  IF d > 6 THEN {}
  ELSE LET side == RingSide(position, to_vec[d], n)
       IN side.cells \cup RingSides(side.position, d + 1, n)

\* Mutant: the walk starts from the north-eastern corner.
RingCorner_Northeast(p, rng) == travel(p, "Northeast", rng)

\* The cell ring::base starts its walk from.
RingCorner(p, rng) == travel(p, "Northwest", rng)

\* ring::base
base_ring(p, rng) == RingSides(RingCorner(p, rng), 1, rng)

\* Mutant: the two poles are not inserted.
ring_of_NoPoles(p, rng) ==
  base_ring(p, rng)
  \cup UNION {base_ring(travel(p, "Up", i), rng - i)
              \cup base_ring(travel(p, "Down", i), rng - i) : i \in 1..rng}

\* ring::of
ring_of(p, rng) ==
  base_ring(p, rng)
  \cup UNION {base_ring(travel(p, "Up", i), rng - i)
              \cup base_ring(travel(p, "Down", i), rng - i) : i \in 1..rng}
  \cup {travel(p, "Up", rng), travel(p, "Down", rng)}

RegionOps == {"base_range", "range", "base_ring", "ring"}

Centres == {Point(cq, cr, ct) : cq \in -1..1, cr \in -1..1, ct \in 0..1}
           \cup {Point(1, 2, 5)}

InitRegion ==
  /\ op \in RegionOps
  /\ point \in Centres
  /\ other = point
  /\ range \in -1..MaxRadius
  /\ walls = EmptyMap
  /\ it = IteratorNew(point, point)
  /\ last = point
  /\ index = 0
  /\ set = {}
  /\ emitted = <<>>
  /\ NoFlood
  /\ queried = {}
  /\ NoResult
  /\ pc = "call"

Return(value) ==
  /\ set' = value
  /\ pc' = "done"
  /\ UNCHANGED <<op, point, other, range, walls, it, last, index, emitted,
                 visited, fringes, queried, result>>

CallBaseRange == pc = "call" /\ op = "base_range" /\ Return(base_range(point, range))

CallRange == pc = "call" /\ op = "range" /\ Return(range_of(point, range))

CallBaseRing == pc = "call" /\ op = "base_ring" /\ Return(base_ring(point, range))

CallRing == pc = "call" /\ op = "ring" /\ Return(ring_of(point, range))

NextRegion == CallBaseRange \/ CallRange \/ CallBaseRing \/ CallRing

SpecRegion == InitRegion /\ [][NextRegion]_vars

(***************************************************************************)
(* Rotation, and single calls of rotate, of the float round trip and of    *)
(* has_wall_between.                                                       *)
(***************************************************************************)
\* i32 `%`: the remainder takes the sign of the dividend.
rem(x, y) == IF x >= 0 THEN x % y ELSE -((-x) % y)

\* Mutant: a negative remainder is not brought back into 0..5.
RotateTimes_Truncated(times) == rem(times, 6)

\* rotate: `let mut times = times % 6; if times < 0 { times += 6; }`
RotateTimes(times) ==
  LET n == rem(times, 6) IN IF n < 0 THEN n + 6 ELSE n

\* Mutant: the arms of the match turn the other way round.
RotateRelative_Counterclockwise(rel, n) ==
  LET rq == rel.q
      rr == rel.r
      rs == s(rel)
      rt == rel.t
  IN CASE n = 0 -> Point(rq, rr, rt)
       [] n = 1 -> Point(-rs, -rq, rt)
       [] n = 2 -> Point(rr, rs, rt)
       [] n = 3 -> Point(-rq, -rr, rt)
       [] n = 4 -> Point(rs, rq, rt)
       [] n = 5 -> Point(-rr, -rs, rt)

\* rotate: the match on the normalised count, applied to the point relative
\* to the centre.
RotateRelative(rel, n) ==
  LET rq == rel.q
      rr == rel.r
      rs == s(rel)
      rt == rel.t
  IN CASE n = 0 -> Point(rq, rr, rt)
       [] n = 1 -> Point(-rr, -rs, rt)
       [] n = 2 -> Point(rs, rq, rt)
       [] n = 3 -> Point(-rq, -rr, rt)
       [] n = 4 -> Point(rr, rs, rt)
       [] n = 5 -> Point(-rs, -rq, rt)

\* The call rotate(p, center, times) reaches the match's panic!() arm.
RotatePanics(p, center, times) == p # center /\ RotateTimes(times) \notin 0..5

\* Mutant: the point is turned about the origin, whatever the centre.
rotate_AboutOrigin(p, center, times) ==
  IF p = center THEN p
  ELSE RotateRelative(p, RotateTimes(times))

\* rotate, defined where the match returns.
rotate(p, center, times) ==
  IF p = center THEN p
  ELSE PointAdd(RotateRelative(PointSub(p, center), RotateTimes(times)), center)

CallOps == {"rotate", "round", "has_wall_between"}

RotateCentres == {Point(0, 0, 0), Point(1, 1, 5)}

\* Counts next to the ends of the i32 range (times + 6 is still an i32).
ExtremeTimes == {2147483641, -2147483647}

Times == (-MaxTimes..MaxTimes) \cup ExtremeTimes

\* 2^24: every integer of at most this magnitude is a binary32 value.
ExactLimit == 2^24

\* Points with coordinates at and beyond the integers binary32 represents.
LargePoints == {Point(ExactLimit, 0, 0), Point(-ExactLimit, ExactLimit, 1),
                Point(ExactLimit - 1, 1, -ExactLimit),
                Point(ExactLimit + 1, 0, 0), Point(0, -(ExactLimit + 3), 0),
                Point(1, 2, ExactLimit + 1), Point(ExactLimit, 1, 0)}

RoundPoints == Offsets \cup LargePoints \cup {Point(1, 2, 5)}

\* Wall maps for a single query: a prism at either point, or at both.
QueryMaps(a, b) ==
  {EmptyMap, [c \in {a, b} |-> Prism(1, 1, 1, 1)]}
  \cup {[c \in {cell} |-> Prism(2, 2, 2, 2)] : cell \in {a, b}}
  \cup {[c \in {cell} |-> Prism(-1, -1, -1, -1)] : cell \in {a, b}}
  \cup {[c \in {cell} |-> kind] : cell \in {a, b}, kind \in WallKinds}

InitCalls ==
  /\ op \in CallOps
  /\ \/ /\ op = "rotate"
        /\ other \in RotateCentres
        /\ point \in {PointAdd(other, o) : o \in Offsets}
        /\ range \in Times
        /\ walls = EmptyMap
     \/ /\ op = "round"
        /\ point \in RoundPoints
        /\ other = point
        /\ range = 0
        /\ walls = EmptyMap
     \/ /\ op = "has_wall_between"
        /\ point = Point(0, 0, 0)
        /\ other \in Offsets
        /\ range = 0
        /\ walls \in QueryMaps(point, other)
  /\ it = IteratorNew(point, point)
  /\ last = point
  /\ index = 0
  /\ set = {}
  /\ emitted = <<>>
  /\ NoFlood
  /\ queried = {}
  /\ NoResult
  /\ pc = "call"

\* The call returns `value`, or dies in a panic!() arm.
Answer(panics, value) ==
  /\ IF panics THEN pc' = "panic" /\ UNCHANGED result
               ELSE pc' = "done" /\ result' = value
  /\ UNCHANGED <<op, point, other, range, walls, it, last, index, set, emitted,
                 visited, fringes, queried>>

CallRotate ==
  /\ pc = "call" /\ op = "rotate"
  /\ Answer(RotatePanics(point, other, range), rotate(point, other, range))

\* Point<f32>::from(point).round()
CallRound ==
  /\ pc = "call" /\ op = "round"
  /\ Answer(FALSE, F32PointRound(F32PointFrom(point)))

CallHasWallBetween ==
  /\ pc = "call" /\ op = "has_wall_between"
  /\ Answer(WallQueryPanics(point, other), has_wall_between(walls, point, other))

NextCalls == CallRotate \/ CallRound \/ CallHasWallBetween

SpecCalls == InitCalls /\ [][NextCalls]_vars

(***************************************************************************)
(* Flood fill: one call of flood / flood_base, one loop round per step.    *)
(***************************************************************************)
FloodOps == {"flood", "flood_base"}

\* Mutant: the neighbours are taken from a range of radius 2.
FloodNeighbors_Radius2(o, p) ==
  IF o = "flood" THEN range_of(p, 2) ELSE base_range(p, 2)

\* range_fn(point, 1): range::of for flood, range::base for flood_base.
FloodNeighbors(o, p) ==
  IF o = "flood" THEN range_of(p, 1) ELSE base_range(p, 1)

\* Mutant: every flood looks at the planar neighbours only.
FloodQueries_PlanarOnly(o, vis, fr) ==
  UNION {{<<p, n>> : n \in base_range(p, 1) \ vis} : p \in fr}

\* The pairs (point, neighbor) one round hands to has_wall_between: every
\* neighbour of a fringe point that `visited` does not contain.
FloodQueries(o, vis, fr) ==
  UNION {{<<p, n>> : n \in FloodNeighbors(o, p) \ vis} : p \in fr}

\* Mutant: only the wall declared by the fringe point is looked up.
FloodFound_NearSideOnly(map, o, vis, fr) ==
  {x[2] : x \in {y \in FloodQueries(o, vis, fr) :
                   ~(y[1] # y[2] /\ has_wall(map, y[1], DirectionFrom(y[1], y[2])))}}

\* Mutant: a neighbour that one fringe point finds behind a wall is not
\* found through any other fringe point of the round.
FloodFound_BlockedOnce(map, o, vis, fr) ==
  {x[2] : x \in {y \in FloodQueries(o, vis, fr) :
                   ~has_wall_between(map, y[1], y[2])}}
    \ {x[2] : x \in {y \in FloodQueries(o, vis, fr) :
                       has_wall_between(map, y[1], y[2])}}

\* The elements of `found` at the end of one round.
FloodFound(map, o, vis, fr) ==
  {x[2] : x \in {y \in FloodQueries(o, vis, fr) :
                   ~has_wall_between(map, y[1], y[2])}}

\* Mutant: the last fringe is not folded into the result.
FloodResult_DropFringe(vis, fr) == vis

\* visited.extend(fringes); visited
FloodResult(vis, fr) == vis \cup fr

FloodStarts == {Point(0, 0, 0), Point(1, 2, 2), Point(1, 2, 0)}

\* The wall map of the flood test around its start: the start is open to
\* the west only.
FloodTestMap(a) ==
  LET west      == travel(a, "West", 1)
      northwest == travel(a, "Northwest", 1)
      northeast == travel(a, "Northeast", 1)
      up        == travel(a, "Up", 1)
  IN [c \in {west, northwest, northeast, up, a} |->
        IF c = west THEN Prism(0, 1, 0, 0)
        ELSE IF c = northwest THEN Prism(0, 1, 1, 0)
        ELSE IF c = northeast THEN Prism(0, 0, 1, 0)
        ELSE IF c = up THEN Prism(0, 0, 0, 1)
        ELSE Prism(1, 1, 1, 1)]

\* The wall map of the flood_base test.
FloodBaseTestMap(a) ==
  LET west      == travel(a, "West", 1)
      northwest == travel(a, "Northwest", 1)
      northeast == travel(a, "Northeast", 1)
  IN [c \in {west, northwest, northeast, a} |->
        IF c = west THEN Prism(0, 1, 0, 0)
        ELSE IF c = northwest THEN Prism(0, 1, 1, 0)
        ELSE IF c = northeast THEN Prism(0, 0, 1, 0)
        ELSE Prism(1, 1, 1, 0)]

\* The flood test's map with the western side closed as well: the start
\* carries or faces a wall on all eight sides.
SealedMap(a) ==
  [FloodTestMap(a) EXCEPT ![travel(a, "West", 1)] = Prism(1, 1, 0, 0)]

FloodMaps(a) == {FloodTestMap(a), FloodBaseTestMap(a), SealedMap(a)} \cup WallMaps(a)

InitFlood ==
  /\ op \in FloodOps
  /\ point \in FloodStarts
  /\ other = point
  /\ range \in -1..MaxRadius
  /\ walls \in FloodMaps(point)
  /\ it = IteratorNew(point, point)
  /\ last = point
  /\ index = 0
  /\ set = {}
  /\ emitted = <<>>
  /\ visited = {}
  /\ fringes = {point}
  /\ queried = {}
  /\ NoResult
  /\ pc = "flood"

\* One round of `for _ in 0 .. range`; `index` counts the rounds.
FloodRound ==
  /\ pc = "flood"
  /\ index < range
  /\ LET asked == FloodQueries(op, visited, fringes)
     IN /\ queried' = queried \cup asked
        /\ IF \E x \in asked : WallQueryPanics(x[1], x[2])
           THEN /\ pc' = "panic"
                /\ UNCHANGED <<visited, fringes, index>>
           ELSE /\ visited' = visited \cup fringes
                /\ fringes' = FloodFound(walls, op, visited, fringes)
                /\ index' = index + 1
                /\ pc' = "flood"
  /\ UNCHANGED <<op, point, other, range, walls, it, last, set, emitted, result>>

\* The loop is over: the last fringe joins `visited`, which is returned.
FloodReturn ==
  /\ pc = "flood"
  /\ index >= range
  /\ visited' = FloodResult(visited, fringes)
  /\ set' = visited'
  /\ pc' = "done"
  /\ UNCHANGED <<op, point, other, range, walls, it, last, index, emitted,
                 fringes, queried, result>>

NextFlood == FloodRound \/ FloodReturn

SpecFlood == InitFlood /\ [][NextFlood]_vars

(***************************************************************************)
(* Every call that consults the wall map: ray, ray_through, flood and      *)
(* flood_base.                                                             *)
(***************************************************************************)
InitRay == Init /\ UsesWalls(op)

InitWallQueries == InitRay \/ InitFlood

NextWallQueries == Next \/ NextFlood

SpecWallQueries == InitWallQueries /\ [][NextWallQueries]_vars

(***************************************************************************)
(* Cube rounding: single calls of Point<f32>::round on float points.       *)
(***************************************************************************)
\* Mutant: the comparisons of the rounding errors are not strict.
CubeRound_NotStrict(p) ==
  LET fs == F32S(p)
      rq == F32RoundInt(p.q)
      rr == F32RoundInt(p.r)
      rs == F32RoundInt(fs)
      rt == F32RoundInt(p.t)
      dq == F32Abs(F32Sub(F32FromInt(rq), p.q))
      dr == F32Abs(F32Sub(F32FromInt(rr), p.r))
      ds == F32Abs(F32Sub(F32FromInt(rs), fs))
  IN IF ~F32Lt(dq, ds) /\ ~F32Lt(dq, dr) THEN Point((-rs) - rr, rr, rt)
     ELSE IF ~F32Lt(dr, ds) THEN Point(rq, (-rq) - rs, rt)
     ELSE Point(rq, rr, rt)

\* self.round() on a float point.
CubeRound(p) == F32PointRound(p)

\* The float point (1.6, 1.6, 2.5) of the rounding test, in binary32.
RoundExample ==
  Point([kind |-> "num", sign |-> 1, man |-> 13421773, exp |-> -23],
        [kind |-> "num", sign |-> 1, man |-> 13421773, exp |-> -23],
        [kind |-> "num", sign |-> 1, man |-> 10485760, exp |-> -22])

\* Planar float coordinates: the eighths (exact, so that rounding errors tie)
\* and the binary32 values next to the tenths, up to MaxD in magnitude.
FloatCoords ==
  {F32Pack(sg, m, -3) : sg \in {1, -1}, m \in 0..(8 * MaxD)}
    \cup {F32Pack(sg, (m * 2^24) \div 10, -24) : sg \in {1, -1}, m \in 0..(10 * MaxD)}

\* Float heights: the halves up to MaxH in magnitude.
FloatHeights == {F32Pack(sg, m, -1) : sg \in {1, -1}, m \in 0..(2 * MaxH)}

FloatPoints ==
  {Point(fq, fr, ft) : fq \in FloatCoords, fr \in FloatCoords, ft \in FloatHeights}
    \cup {RoundExample}

InitRound ==
  /\ op = "round_float"
  /\ point \in FloatPoints
  /\ other = point
  /\ range = 0
  /\ walls = EmptyMap
  /\ it = IteratorNew(Point(0, 0, 0), Point(0, 0, 0))
  /\ last = Point(0, 0, 0)
  /\ index = 0
  /\ set = {}
  /\ emitted = <<>>
  /\ NoFlood
  /\ queried = {}
  /\ NoResult
  /\ pc = "call"

CallCubeRound ==
  /\ pc = "call" /\ op = "round_float"
  /\ Answer(FALSE, CubeRound(point))

NextRound == CallCubeRound

SpecRound == InitRound /\ [][NextRound]_vars

(***************************************************************************)
(* The tracer far from the origin, where the binary32 target of the        *)
(* iterator has no fractional bits left.                                   *)
(***************************************************************************)
\* From this magnitude on neighbouring binary32 values are 0.5 apart, from
\* twice this magnitude on they are 1 apart.
FarCoordinate == 2^22

FarStarts == {Point(FarCoordinate, 0, 0),
              Point(2 * FarCoordinate, 2 * FarCoordinate, 0)}

FarPairs == {<<a, PointAdd(a, o)>> : a \in FarStarts, o \in Offsets}

InitFar ==
  /\ op \in TracerOps
  /\ \E pair \in FarPairs : point = pair[1] /\ other = pair[2]
  /\ range \in (IF UsesRange(op) THEN 0..MaxRange ELSE {0})
  /\ walls = EmptyMap
  /\ it = IteratorNew(point, other)
  /\ last = point
  /\ index = 0
  /\ set = {}
  /\ emitted = <<>>
  /\ NoFlood
  /\ queried = {}
  /\ NoResult
  /\ pc = "collect"

SpecFar == InitFar /\ [][Next]_vars

(***************************************************************************)
(* Properties.                                                             *)
(***************************************************************************)
\* line::of as a function: the iterator's items with index 0..distance.
LineItems(a, b) == IteratorTake(IteratorNew(a, b), distance(a, b) + 1)

\* b is one unit step from a: a planar neighbour at the same height, or
\* the cell directly above or below.
UnitStep(a, b) == \E d \in 1..8 : b = travel(a, to_vec[d], 1)

\* The box of every point within `reach` of p on each axis.
Box(p, reach) == {Point(p.q + dq, p.r + dr, p.t + dt) :
                    dq \in (-reach)..reach, dr \in (-reach)..reach,
                    dt \in (-reach)..reach}

\* C1: for all points a, b, distance(a, b) is the planar distance
\* (|dq| + |dr| + |ds|) / 2, with ds = -dq - dr derived from a - b, plus the
\* height distance |dt|; distance((1,2,5), (3,4,10)) is 9.
C1_DistanceIsPlanarPlusHeight ==
  LET dq == point.q - other.q
      dr == point.r - other.r
      ds == (-dq) - dr
      dt == point.t - other.t
  IN /\ distance(point, other) = (abs(dq) + abs(dr) + abs(ds)) \div 2 + abs(dt)
     /\ base_distance(point, other) + height(point, other) = distance(point, other)
     /\ distance(Point(1, 2, 5), Point(3, 4, 10)) = 9

\* A finished line whose budget was the distance 9 of the documented pair.
C1_Witness ==
  /\ op = "line" /\ pc = "done"
  /\ point = Point(1, 2, 5) /\ other = Point(3, 4, 10)
  /\ Len(emitted) = 10

\* C2: line(a, b) contains exactly distance(a, b) + 1 distinct cells, a and
\* b among them, for ascending, level and descending lines alike.
C2_LineHasDistancePlusOneCells ==
  (op = "line" /\ pc = "done") =>
    /\ Cardinality(set) = distance(point, other) + 1
    /\ point \in set
    /\ other \in set

\* C3: in emission order every cell emitted by line, line_through, ray and
\* ray_through is exactly one unit step from the cell emitted before it: a
\* planar neighbour at the same height, or the same (q, r) one level up or
\* down.
C3_EmittedStepsAreUnitSteps ==
  \A i \in 1..(Len(emitted) - 1) :
    /\ UnitStep(emitted[i], emitted[i + 1])
    /\ \/ emitted[i].t = emitted[i + 1].t /\ base_distance(emitted[i], emitted[i + 1]) = 1
       \/ /\ emitted[i].q = emitted[i + 1].q /\ emitted[i].r = emitted[i + 1].r
          /\ abs(emitted[i].t - emitted[i + 1].t) = 1

\* A finished walk over at least two levels that took both a vertical and a
\* planar step.
C3_Witness ==
  /\ pc = "done"
  /\ height(point, other) >= 2
  /\ \E i \in 1..(Len(emitted) - 1) : emitted[i].t # emitted[i + 1].t
  /\ \E i \in 1..(Len(emitted) - 1) : emitted[i].t = emitted[i + 1].t

\* C4: for a # b and a range n >= 0, line_through(a, b, n) returns exactly
\* n + 1 distinct cells, and its first min(n, distance(a, b)) + 1 cells in
\* emission order are those of line(a, b).
C4_ThroughEmitsRangePlusOne ==
  /\ (op = "line" /\ pc = "done") => emitted = LineItems(point, other)
  /\ (op = "line_through" /\ pc = "done" /\ point # other /\ range >= 0) =>
       LET k == min(range, distance(point, other)) + 1
       IN /\ Cardinality(set) = range + 1
          /\ Len(emitted) = range + 1
          /\ SubSeq(emitted, 1, k) = SubSeq(LineItems(point, other), 1, k)

\* The documented line_through((1,2,5), (2,2,6), 3), which runs past its end.
C4_Witness ==
  /\ op = "line_through" /\ pc = "done"
  /\ point = Point(1, 2, 5) /\ other = Point(2, 2, 6) /\ range = 3
  /\ set = {Point(1, 2, 5), Point(1, 2, 6), Point(2, 2, 6), Point(2, 2, 7)}

\* C5: for every range n <= 0, line_through(a, b, n) and
\* ray_through(a, b, n, walls) return exactly {a}: nothing beyond the start
\* is walked.
C5_NonPositiveRangeIsSingleton ==
  (UsesRange(op) /\ range <= 0) =>
    /\ set \subseteq {point}
    /\ (pc = "done" => set = {point})
    /\ pc # "cut"

C7_BaseRangeIsHexagon ==
  (op = "base_range" /\ pc = "done" /\ range >= 0) =>
    /\ set = {x \in Box(point, range + 1) :
                x.t = point.t /\ base_distance(point, x) <= range}
    /\ Cardinality(set) = 3 * range * range + 3 * range + 1

\* base_range((1,2,5), 1): the centre and its six planar neighbours.
C7_Witness ==
  /\ op = "base_range" /\ pc = "done" /\ point = Point(1, 2, 5) /\ range = 1
  /\ set = {Point(1, 2, 5), Point(2, 2, 5), Point(1, 3, 5), Point(0, 3, 5),
            Point(0, 2, 5), Point(1, 1, 5), Point(2, 1, 5)}

\* C8: for r >= 0, range(p, r) is exactly the set of points x with
\* distance(p, x) <= r under the planar + height metric (9 cells for r = 1).
C8_RangeIsDistanceBall ==
  (op = "range" /\ pc = "done" /\ range >= 0) =>
    /\ set = {x \in Box(point, range + 1) : distance(point, x) <= range}
    /\ (range = 1 => Cardinality(set) = 9)

\* range of radius 2: the cells above and below the centre are inside, a
\* planar neighbour two levels up is not.
C8_Witness ==
  /\ op = "range" /\ pc = "done" /\ range = 2
  /\ travel(point, "Up", 2) \in set
  /\ travel(travel(point, "East", 1), "Down", 1) \in set
  /\ travel(travel(point, "East", 1), "Up", 2) \notin set

\* C9: for r > 0, base_ring(p, r) has exactly 6 * r distinct cells, all at
\* p's height and all at planar distance exactly r from p.
C9_BaseRingIsHexagonBoundary ==
  (op = "base_ring" /\ pc = "done" /\ range > 0) =>
    /\ Cardinality(set) = 6 * range
    /\ \A x \in set : x.t = point.t /\ base_distance(point, x) = range

\* base_ring of radius 2 or more: twelve or more cells, the centre excluded.
C9_Witness ==
  /\ op = "base_ring" /\ pc = "done" /\ range >= 2
  /\ Cardinality(set) >= 12
  /\ point \notin set

\* C10: base_ring(p, 0) = {p}.
C10_BaseRingZeroIsCentre ==
  (op = "base_ring" /\ pc = "done" /\ range = 0) => set = {point}

\* C11: for r >= 0, ring(p, r) is exactly the set of points x with
\* distance(p, x) = r under the planar + height metric, the two poles r
\* levels above and below p included: 26 cells for r = 2, {p} for r = 0.
C11_RingIsDistanceSphere ==
  (op = "ring" /\ pc = "done" /\ range >= 0) =>
    /\ set = {x \in Box(point, range + 1) : distance(point, x) = range}
    /\ travel(point, "Up", range) \in set
    /\ travel(point, "Down", range) \in set
    /\ (range = 2 => Cardinality(set) = 26)
    /\ (range = 0 => set = {point})

\* The ring of the tests: ring((1,2,5), 2) has 26 cells, the poles
\* (1,2,7) and (1,2,3) among them.
C11_Witness ==
  /\ op = "ring" /\ pc = "done" /\ point = Point(1, 2, 5) /\ range = 2
  /\ Cardinality(set) = 26
  /\ {Point(1, 2, 7), Point(1, 2, 3), Point(1, 0, 5), Point(2, 2, 6)} \subseteq set

\* a declares a wall of strength >= 1 on its side facing b: one of the
\* four sides a wall-bearing cell carries (East, Southeast, Southwest, Down).
DeclaresWall(map, a, b) ==
  /\ a \in DOMAIN map
  /\ \/ b = Point(a.q + 1, a.r, a.t) /\ map[a].east >= 1
     \/ b = Point(a.q, a.r + 1, a.t) /\ map[a].southeast >= 1
     \/ b = Point(a.q - 1, a.r + 1, a.t) /\ map[a].southwest >= 1
     \/ b = Point(a.q, a.r, a.t - 1) /\ map[a].down >= 1

\* The occlusion map's contract: a and b are adjacent and one of them
\* declares a wall on the side facing the other.
WallBetween(map, a, b) ==
  UnitStep(a, b) /\ (DeclaresWall(map, a, b) \/ DeclaresWall(map, b, a))

\* The unit steps a flood may take: all eight for flood, the six planar
\* ones for flood_base.
StepDirs(o) == IF o = "flood" THEN 1..8 ELSE 1..6

\* The cells reachable from p by a path of at most k unit steps along dirs
\* none of which crosses a wall (the empty path for k <= 0).
RECURSIVE Reach(_, _, _, _)
Reach(map, dirs, p, k) ==
  IF k <= 0 THEN {p}
  ELSE LET prev == Reach(map, dirs, p, k - 1)
       IN prev \cup UNION {{travel(x, to_vec[d], 1) : d \in
                              {e \in dirs : ~WallBetween(map, x, travel(x, to_vec[e], 1))}} :
                           x \in prev}

\* C12: every point returned by flood (all eight unit steps) and flood_base
\* (planar steps only) is reachable from the start by a path of at most
\* `range` unit steps no step of which has a wall between its two cells;
\* cells behind walls or further away are not returned.
C12_FloodIsWithinOpenReach ==
  /\ (op \in FloodOps /\ pc = "flood") =>
       visited \cup fringes \subseteq Reach(walls, StepDirs(op), point, index)
  /\ (op \in FloodOps /\ pc = "done") =>
       set \subseteq Reach(walls, StepDirs(op), point, range)

\* The flood test: from (1,2,2), open to the west only, radius 2 reaches
\* seven cells.
C12_Witness ==
  /\ op = "flood" /\ pc = "done" /\ point = Point(1, 2, 2) /\ range = 2
  /\ walls = FloodTestMap(point)
  /\ set = {Point(1, 2, 2), Point(0, 2, 2), Point(0, 1, 2), Point(-1, 2, 2),
            Point(-1, 3, 2), Point(0, 2, 1), Point(0, 2, 3)}

\* C13: flood(p, radius, walls) and flood_base contain p for every radius,
\* zero and negative ones included, and every wall map, one that walls p
\* in on all sides included.
C13_FloodContainsStart ==
  (op \in FloodOps /\ pc = "done") => point \in set

\* A start walled in on every side, flooded with a positive radius: the
\* result is the start alone.
C13_Witness ==
  /\ op = "flood" /\ pc = "done" /\ range >= 1
  /\ walls = SealedMap(point)
  /\ set = {point}

\* C14: rotate(p, center, k) = rotate(p, center, k + 6) for every count k,
\* negative ones included; rotating 0 or 6 times returns p.
C14_RotateHasPeriodSix ==
  (op = "rotate" /\ pc # "call") =>
    /\ pc = "done"
    /\ ~RotatePanics(point, other, range + 6)
    /\ result = rotate(point, other, range + 6)
    /\ (range \in {0, 6} => result = point)

\* rotate_2d((1,2,5), (0,0,0), -1) = (3,-1,5) of the documentation, taken
\* at height 0: the result of five clockwise turns.
C14_Witness ==
  /\ op = "rotate" /\ pc = "done" /\ range = -1
  /\ point = Point(1, 2, 0) /\ other = Point(0, 0, 0)
  /\ result = Point(3, -1, 0)
  /\ result = rotate(point, other, 5)

\* C15: converting an integer point to a float point and rounding it
\* returns the point: round(from(p)) = p for every integer point p.
C15_RoundTripIsIdentity ==
  (op = "round" /\ pc = "done") => result = point

\* q, r, s = -q - r and t all have a magnitude of at most 2^24.
WithinExactLimit(p) ==
  /\ abs(p.q) <= ExactLimit /\ abs(p.r) <= ExactLimit
  /\ abs(s(p)) <= ExactLimit /\ abs(p.t) <= ExactLimit

\* C15 as amended: round(from(p)) = p for every integer point p whose q,
\* r, s = -q - r and t have a magnitude of at most 2^24.
C15_RoundTripOfExactPoints ==
  (op = "round" /\ pc = "done" /\ WithinExactLimit(point)) => result = point

\* A point on the limit, with s = 0 and t = 1, came back unchanged.
C15_Witness ==
  /\ op = "round" /\ pc = "done"
  /\ point = Point(-ExactLimit, ExactLimit, 1)
  /\ result = point

\* C16: has_wall_between(A, B) is true exactly when A and B are adjacent
\* and one of them declares a wall of strength >= 1 on the side facing the
\* other; it is false for equal points and for points that are not adjacent.
C16_WallBetweenIffAdjacentAndWalled ==
  (op = "has_wall_between" /\ pc # "call") =>
    /\ pc = "done"
    /\ result = WallBetween(walls, point, other)

\* C19: for a centre c, a planar direction d and a count n,
\* rotate(travel(c, d, n), c, 1) = travel(c, next(d), n), next being the
\* clockwise successor in East, Southeast, Southwest, West, Northwest,
\* Northeast; rotate never changes t.
C19_RotateTurnsClockwise ==
  (op = "rotate" /\ pc # "call") =>
    /\ pc = "done"
    /\ result.t = point.t
    /\ range = 1 =>
         \A d \in 1..6 : \A n \in (-(MaxD + 1))..(MaxD + 1) :
           point = travel(other, to_vec[d], n) =>
             result = travel(other, to_vec[(d % 6) + 1], n)

\* Two steps north-east of the centre (1,1,5), one level up, turned once:
\* two steps east of it, still one level up.
C19_Witness ==
  /\ op = "rotate" /\ pc = "done" /\ range = 1
  /\ other = Point(1, 1, 5)
  /\ point = Point(3, -1, 6)
  /\ result = Point(3, 1, 6)

\* C17: during ray, ray_through, flood and flood_base, has_wall_between is
\* only called on two distinct cells one unit step apart (a planar
\* neighbour step or one level up or down), never on another pair.
C17_QueriedPairsAreAdjacent ==
  \A x \in queried : UnitStep(x[1], x[2])

\* C17, with the equal pair allowed for: every pair has_wall_between is
\* called on is either one cell with itself (the start of a ray, a fringe
\* cell of a flood) or two cells one unit step apart, never a pair further
\* apart, and no such call panics.
C17_QueriedPairsAreWithinOneStep ==
  /\ \A x \in queried : x[1] = x[2] \/ UnitStep(x[1], x[2])
  /\ pc # "panic"

\* A finished flood that asked about its start against itself, about the
\* cell above the start and about a cell two steps out against a neighbour.
C17_Witness ==
  /\ op = "flood" /\ pc = "done" /\ range >= 2
  /\ <<point, point>> \in queried
  /\ <<point, travel(point, "Up", 1)>> \in queried
  /\ \E x \in queried : distance(point, x[2]) = 2 /\ UnitStep(x[1], x[2])

\* C18: for every radius r <= 0, each of base_range(p, r), range(p, r),
\* base_ring(p, r), ring(p, r) and flood(p, r, walls) returns, without an
\* error, a set of at most one element, and that element can only be p.
C18_NonPositiveRadiusIsMinimal ==
  (op \in RegionOps \cup FloodOps /\ range <= 0) =>
    /\ pc # "panic"
    /\ pc = "done" => Cardinality(set) <= 1 /\ set \subseteq {point}

\* C20: in every tracer step in which the rounded target is at another
\* height than the current cell, the cell emitted keeps the current q and r
\* and moves t by sign(round_target.t - current.t), one level towards the
\* rounded target: down on a descending line, never above the start.
C20_VerticalStepsGoTowardsTarget ==
  [][(pc = "collect" /\ it.returned_start /\ ~it.going_nowhere
        /\ it'.round_target.t # it.current.t)
       => it'.current = PointAdd(it.current,
                                 Point(0, 0, signum(it'.round_target.t - it.current.t)))]_vars

\* The per-axis deltas tinyOffset + (end.axis - start.axis) / divisor, in
\* binary32.
DeltaOver(start, end, divisor) ==
  LET frac(x, y) == F32Add(TinyOffset, F32MulInt(y - x, F32Recip(divisor)))
  IN Point(frac(start.q, end.q), frac(start.r, end.r), frac(start.t, end.t))

\* C21: for start # end the divisor of the tracer's per-step delta is
\* distance(start, end), the combined planar + height distance: each axis
\* delta is tinyOffset + (end.axis - start.axis) / distance(start, end).
C21_DeltaDividesByDistance ==
  (op \in TracerOps /\ point # other) =>
    it.step_size = DeltaOver(point, other, distance(point, other))

\* The largest of |dq|, |dr|, |ds| between two points.
PlanarSpan(a, b) ==
  max(abs(a.q - b.q), max(abs(a.r - b.r), abs(s(a) - s(b))))

\* C21 as amended: for start # end the divisor is the planar distance
\* max(|dq|, |dr|, |ds|) when start and end differ in q or r, and the height
\* difference |dt| when they differ in height only; it is
\* distance(start, end) exactly for level and for vertical lines.
C21_DeltaDividesByPlanarSpan ==
  (op \in TracerOps /\ point # other) =>
    LET divisor == IF PlanarSpan(point, other) > 0 THEN PlanarSpan(point, other)
                   ELSE abs(point.t - other.t)
    IN /\ it.step_size = DeltaOver(point, other, divisor)
       /\ (divisor = distance(point, other)) <=>
            (PlanarSpan(point, other) = 0 \/ point.t = other.t)

\* The documented line from (1,2,5) to (3,4,10), of distance 9, has run
\* with deltas over the planar distance 4.
C21_Witness ==
  /\ op = "line" /\ pc = "done"
  /\ point = Point(1, 2, 5) /\ other = Point(3, 4, 10)
  /\ distance(point, other) = 9
  /\ it.step_size = DeltaOver(point, other, 4)
  /\ it.step_size # DeltaOver(point, other, 9)

\* A float that is a finite number, neither an infinity nor a NaN.
F32Finite(x) == x.kind = "num"

\* C22: the reciprocal of a zero distance is never performed: the step size
\* is computed only after the start == end short-circuit, so an iterator
\* built for start == end holds no delta that came from 1 / 0.
C22_NoReciprocalOfZero ==
  (op \in TracerOps /\ it.going_nowhere) =>
    /\ StepDivisor(it.start, other) # 0
    /\ F32Finite(it.step_size.q)
    /\ F32Finite(it.step_size.r)
    /\ F32Finite(it.step_size.t)

\* The cells whose wall-respecting hop distance from p is exactly k.
HopsExactly(map, dirs, p, k) ==
  IF k <= 0 THEN {p}
  ELSE Reach(map, dirs, p, k) \ Reach(map, dirs, p, k - 1)

\* C23: in flood the frontier at the start of round k + 1 (after k completed
\* rounds) holds only cells whose wall-respecting hop distance from the
\* start is exactly k, so the start and the cells already expanded never
\* re-enter a later frontier.
C23_FrontierIsExactlyKHops ==
  (op \in FloodOps /\ pc = "flood") =>
    /\ fringes \subseteq HopsExactly(walls, StepDirs(op), point, index)
    /\ fringes \cap visited = {}

\* C24: for range >= 0 flood and flood_base return every cell that a path
\* of at most `range` unit steps (eight for flood, the six planar ones for
\* flood_base), none of which crosses a wall, reaches from the start.
C24_FloodReturnsAllOpenReach ==
  (op \in FloodOps /\ pc = "done" /\ range >= 0) =>
    Reach(walls, StepDirs(op), point, range) \subseteq set

\* A flood of radius 2 or more has returned a cell two open steps from the
\* start although a wall lies between that cell and another returned cell.
C24_Witness ==
  /\ op \in FloodOps /\ pc = "done" /\ range >= 2
  /\ \E x \in set, y \in set :
       /\ x \notin Reach(walls, StepDirs(op), point, 1)
       /\ UnitStep(y, x)
       /\ WallBetween(walls, y, x)

\* The rounding error |round(x) - x| of one float.
RoundError(x) == F32Abs(F32Sub(F32FromInt(F32RoundInt(x)), x))

\* The rule of C25 for one float point p and its rounded point rp, stated by
\* the axes that keep their own rounded value.
CubeRoundRule(p, rp) ==
  LET eq == RoundError(p.q)
      er == RoundError(p.r)
      es == RoundError(F32S(p))
  IN /\ rp.t = F32RoundInt(p.t)
     /\ IF F32Lt(es, eq) /\ F32Lt(er, eq)
        THEN rp.r = F32RoundInt(p.r) /\ s(rp) = F32RoundInt(F32S(p))
        ELSE IF F32Lt(es, er)
        THEN rp.q = F32RoundInt(p.q) /\ s(rp) = F32RoundInt(F32S(p))
        ELSE rp.q = F32RoundInt(p.q) /\ rp.r = F32RoundInt(p.r)

\* C25: cube rounding keeps the rounded values of two of q, r, s and
\* re-derives the third: q exactly when its rounding error is strictly larger
\* than both others, otherwise r exactly when s's error is strictly smaller
\* than r's, otherwise q and r are kept and s is implied; t is rounded on
\* its own, and (1.6, 1.6, 2.5) rounds to (2, 1, 3).
C25_CubeRoundingRule ==
  (op = "round_float" /\ pc = "done") =>
    /\ CubeRoundRule(point, result)
    /\ (point = RoundExample => result = Point(2, 1, 3))

\* A float point has been rounded whose q has strictly the largest error
\* and came back re-derived from r and s, not as its own rounded value.
C25_Witness ==
  /\ op = "round_float" /\ pc = "done"
  /\ F32Lt(RoundError(F32S(point)), RoundError(point.q))
  /\ F32Lt(RoundError(point.r), RoundError(point.q))
  /\ result.q # F32RoundInt(point.q)
  /\ result.r = F32RoundInt(point.r)

\* C26: every call of the tracer terminates with a finite set for every
\* integer range, negative explicit ranges with start # end included: the
\* walk takes at most max(range, 0) + 1 cells and is never still running
\* when the pull budget of the model is used up.
C26_WalkEndsWithinItsRange ==
  op \in TracerOps =>
    /\ Len(emitted) <= max(RangeArg, 0) + 1
    /\ pc # "cut"

\* C27: no call of line, line_through, ray, ray_through, flood, flood_base
\* or rotate reaches a panic!() arm, for any points, any range and any wall
\* map.
C27_NoPanicArm == pc # "panic"

\* C28: for every wall map and every pair of adjacent points A, B,
\* has_wall_between(A, B) = has_wall_between(B, A), and the answer is that
\* one of the two cells declares a wall of strength >= 1 on the side facing
\* the other; the passage from A to its western neighbour W is blocked
\* exactly when W's East strength is >= 1, and a strength of 0 or a missing
\* entry never blocks.
C28_WallBetweenIsSymmetric ==
  (op = "has_wall_between" /\ pc = "done" /\ UnitStep(point, other)) =>
    /\ result = has_wall_between(walls, other, point)
    /\ result = (DeclaresWall(walls, point, other) \/ DeclaresWall(walls, other, point))
    /\ other = travel(point, "West", 1) =>
         (result = (other \in DOMAIN walls /\ walls[other].east >= 1))

\* The western neighbour alone holds a prism, with an East wall: the query
\* from the cell that declares nothing has answered TRUE.
C28_Witness ==
  /\ op = "has_wall_between" /\ pc = "done"
  /\ other = travel(point, "West", 1)
  /\ DOMAIN walls = {other}
  /\ walls[other].east >= 1
  /\ result = TRUE

\* No cell of the map declares a wall of positive strength.
NoWalls(map) ==
  \A c \in DOMAIN map :
    map[c].east <= 0 /\ map[c].southeast <= 0 /\ map[c].southwest <= 0 /\ map[c].down <= 0

\* The region a flood of the given kind is bounded by.
FloodRegion(o, p, radius) ==
  IF o = "flood" THEN range_of(p, radius) ELSE base_range(p, radius)

\* C29: for radius >= 0 a flood over a map without walls returns exactly
\* range(p, radius), a flood_base exactly base_range(p, radius), and for
\* every wall map the flood is a subset of that region.
C29_FloodWithoutWallsIsRange ==
  (op \in FloodOps /\ pc = "done" /\ range >= 0) =>
    /\ set \subseteq FloodRegion(op, point, range)
    /\ NoWalls(walls) => set = FloodRegion(op, point, range)

\* A flood of radius 2 or more over a map whose only prism has no wall has
\* returned the whole region, and it has more cells than the start's
\* neighbourhood.
C29_Witness ==
  /\ op \in FloodOps /\ pc = "done" /\ range >= 2
  /\ DOMAIN walls # {} /\ NoWalls(walls)
  /\ set = FloodRegion(op, point, range)
  /\ Cardinality(set) > Cardinality(FloodRegion(op, point, 1))

\* a + b is an i32.
SumIsI32(a, b) ==
  IF a >= 0 THEN b <= 2147483647 - a ELSE b >= (-2147483647) - a

\* C30: rotations about one centre compose additively and preserve the
\* distance to the centre: rotate(rotate(p, c, a), c, b) = rotate(p, c, a + b)
\* for every second count b, and distance(rotate(p, c, a), c) = distance(p, c).
C30_RotationsCompose ==
  (op = "rotate" /\ pc = "done") =>
    /\ distance(result, other) = distance(point, other)
    /\ \A b \in (-MaxTimes)..MaxTimes :
         SumIsI32(range, b) =>
           /\ ~RotatePanics(result, other, b)
           /\ rotate(result, other, b) = rotate(point, other, range + b)

\* A point off the centre (1,1,5) has been turned four times to another
\* cell; five more turns bring it where three turns bring the point.
C30_Witness ==
  /\ op = "rotate" /\ pc = "done" /\ range = 4
  /\ other = Point(1, 1, 5)
  /\ base_distance(point, other) = 2
  /\ result # point
  /\ rotate(result, other, 5) = rotate(point, other, 3)
  /\ rotate(result, other, 5) # result

====
